---- MODULE Spec2Model ----
(***************************************************************************)
(* TaskFlow: the Pomodoro focus timer (PomodoroTimer) and the task board   *)
(* controller (App) of src/README.md, as one state machine.                *)
(*                                                                         *)
(* One action is one event of the single UI thread: a click handler, the   *)
(* one-second interval callback, the settling of a store promise, or a     *)
(* store change notification.  Each action includes the re-render and the  *)
(* effects React runs after the handler (the currentTask effect of the     *)
(* timer), so every state of the model is a settled state of the UI.       *)
(* A state updater is applied once per update, as React's contract for     *)
(* updaters has it.  The backend is configured and the user authenticated, *)
(* so getTasksCollectionRef() returns a collection.                        *)
(***************************************************************************)
EXTENDS Integers, Sequences, FiniteSets

\* ------------------------------------------------------------------ bounds
\* Largest focusTime (minutes) of a task in the store.
MaxFocusMinutes == 2
\* Most store requests (addDoc / updateDoc / deleteDoc promises) pending at once.
MaxInFlight == 1
\* Longest title typed into the form, in characters.
MaxTitleLen == 2

\* --------------------------------------------------------------- constants
POMODORO_TIME == 25 * 60
BREAK_TIME == 5 * 60

\* The documents of the user's tasks collection.
TaskIds == {"t1", "t2"}
\* currentFocusTask === null
NoTask == "null"
\* A document that is not in the collection / not in the list.
Absent == "absent"
Statuses == {"todo", "in-progress", "complete"}

\* task.focusTime, fixed when the document is created.
focusTime(t) == IF t = "t1" THEN 1 ELSE MaxFocusMinutes

\* TaskCard's nextStatus: the status the card's button asks for.
nextStatus(s) ==
  IF s = "todo" THEN "in-progress"
  ELSE IF s = "in-progress" THEN "complete"
  ELSE "todo"

\* The characters of a title: a blank and a letter.
Chars == {" ", "a"}

\* The titles the form can hold, as sequences of characters.
Titles == UNION {[1..n -> Chars] : n \in 0..MaxTitleLen}

\* String.prototype.trim(): the title without leading and trailing blanks.
RECURSIVE trim(_)
trim(title) ==
  IF title = <<>> THEN title
  ELSE IF Head(title) = " " THEN trim(Tail(title))
  ELSE IF title[Len(title)] = " " THEN trim(SubSeq(title, 1, Len(title) - 1))
  ELSE title

VARIABLES
  tasks,             \* App: the cached list, task id -> status (or Absent)
  store,             \* the Firestore collection, task id -> status (or Absent)
  currentFocusTask,  \* App: the focused task (its id) or NoTask
  inflight,          \* the store requests whose promise has not settled
  isSubmitting,      \* App: the form's "Adding..." flag
  remaining,         \* PomodoroTimer: seconds left
  status,            \* PomodoroTimer: "idle", "running", "break"
  intervalId,        \* PomodoroTimer: id of the interval it holds, 0 for null
  intervals,         \* the browser's active setInterval timers (closures)
  completions,       \* onTimerComplete calls since the countdown was started
  lastEvent          \* the event that ran last (what a test of the UI observes)

\* An event of the UI thread, by the name of its handler: "start", "stop",
\* "takeBreak" (the timer's buttons), "tick" (the interval callback), "focus"
\* (a card's Focus button; with the task and its status in the list),
\* "submit" (the form; with the title), "resolved" (a store promise resolved;
\* with what was requested, whether the focus was cleared and the timer's
\* status before), "rejected" (a store promise rejected; with what was
\* requested and whether its task was focused at the call), "other" for the
\* rest.
Event(name) == [name |-> name]

vars == <<tasks, store, currentFocusTask, inflight, isSubmitting, remaining, status,
          intervalId, intervals, completions, lastEvent>>

\* ------------------------------------------------------------ the timer
\* The timer's state as one record, so that its functions are operators.
timerState ==
  [remaining |-> remaining, status |-> status, intervalId |-> intervalId,
   intervals |-> intervals, completions |-> completions]

\* setInterval's return value: a positive id no active timer has.
newIntervalId(active) ==
  CHOOSE n \in 1..(Cardinality(active) + 1) : \A iv \in active : iv.id # n

\* clearInterval(id)
clearInterval(active, id) == {iv \in active : iv.id # id}

\* startTimer that ignores taskFocusTime and counts the default session.
startTimer_defaultTime(ts, newStatus, taskFocusTime, task) ==
  IF ts.intervalId # 0 THEN ts
  ELSE
    LET startTime == IF newStatus = "running" THEN POMODORO_TIME ELSE BREAK_TIME
        id == newIntervalId(ts.intervals)
    IN [ts EXCEPT !.remaining = startTime,
                  !.status = newStatus,
                  !.intervals = @ \cup {[id |-> id, newStatus |-> newStatus, task |-> task]},
                  !.intervalId = id,
                  !.completions = <<>>]

startTimer(ts, newStatus, taskFocusTime, task) ==
  IF ts.intervalId # 0 THEN ts
  ELSE
    LET startTime == IF newStatus = "running" THEN taskFocusTime * 60 ELSE BREAK_TIME
        id == newIntervalId(ts.intervals)
    IN [ts EXCEPT !.remaining = startTime,
                  !.status = newStatus,
                  !.intervals = @ \cup {[id |-> id, newStatus |-> newStatus, task |-> task]},
                  !.intervalId = id,
                  !.completions = <<>>]

\* The interval callback without its clearInterval(id): the interval goes on.
intervalCallback_keepsInterval(ts, iv) ==
  IF ts.remaining <= 1 THEN
    LET cleared == [ts EXCEPT !.intervalId = 0]
    IN IF iv.newStatus = "running"
       THEN [cleared EXCEPT !.completions = Append(@, iv.task),
                            !.status = "break",
                            !.remaining = BREAK_TIME]
       ELSE [cleared EXCEPT !.status = "idle",
                            !.remaining = POMODORO_TIME]
  ELSE [ts EXCEPT !.remaining = @ - 1]

\* The interval callback reporting the task focused now, not the closure's.
intervalCallback_currentTask(ts, iv) ==
  IF ts.remaining <= 1 THEN
    LET cleared == [ts EXCEPT !.intervals = clearInterval(@, iv.id),
                              !.intervalId = 0]
    IN IF iv.newStatus = "running"
       THEN [cleared EXCEPT !.completions = Append(@, currentFocusTask),
                            !.status = "break",
                            !.remaining = BREAK_TIME]
       ELSE [cleared EXCEPT !.status = "idle",
                            !.remaining = POMODORO_TIME]
  ELSE [ts EXCEPT !.remaining = @ - 1]

\* The interval callback of startTimer: setRemaining's updater, for the
\* timer iv (its closure holds id, newStatus and currentTask).
intervalCallback(ts, iv) ==
  IF ts.remaining <= 1 THEN
    LET cleared == [ts EXCEPT !.intervals = clearInterval(@, iv.id),
                              !.intervalId = 0]
    IN IF iv.newStatus = "running"
       THEN [cleared EXCEPT !.completions = Append(@, iv.task),
                            !.status = "break",
                            !.remaining = BREAK_TIME]
       ELSE [cleared EXCEPT !.status = "idle",
                            !.remaining = POMODORO_TIME]
  ELSE [ts EXCEPT !.remaining = @ - 1]

\* stopTimer that forgets the interval's id without clearing the interval.
stopTimer_leaksInterval(ts) ==
  [ts EXCEPT !.intervalId = 0, !.remaining = POMODORO_TIME, !.status = "idle"]

stopTimer(ts) ==
  LET cleared == IF ts.intervalId # 0
                 THEN [ts EXCEPT !.intervals = clearInterval(@, ts.intervalId),
                                 !.intervalId = 0]
                 ELSE ts
  IN [cleared EXCEPT !.remaining = POMODORO_TIME, !.status = "idle"]

\* The effect without its branch for a task removed while the timer runs.
currentTaskEffect_noStop(ts, currentTask) ==
  IF currentTask # NoTask /\ ts.status = "idle"
  THEN [ts EXCEPT !.remaining = focusTime(currentTask) * 60]
  ELSE IF currentTask = NoTask /\ ts.status = "idle"
  THEN [ts EXCEPT !.remaining = POMODORO_TIME]
  ELSE ts

\* The effect without its branch for a task selected while idle.
currentTaskEffect_noTaskTime(ts, currentTask) ==
  IF currentTask = NoTask /\ ts.status # "idle"
  THEN stopTimer(ts)
  ELSE IF currentTask = NoTask /\ ts.status = "idle"
  THEN [ts EXCEPT !.remaining = POMODORO_TIME]
  ELSE ts

\* The effect "Control timer based on currentTask selection", run once.
currentTaskEffect(ts, currentTask) ==
  IF currentTask # NoTask /\ ts.status = "idle"
  THEN [ts EXCEPT !.remaining = focusTime(currentTask) * 60]
  ELSE IF currentTask = NoTask /\ ts.status # "idle"
  THEN stopTimer(ts)
  ELSE IF currentTask = NoTask /\ ts.status = "idle"
  THEN [ts EXCEPT !.remaining = POMODORO_TIME]
  ELSE ts

\* The effect runs after the render, and again when what it set (status,
\* stopTimer) changed: a second run reaches the settled state.
settle(ts, currentTask) ==
  currentTaskEffect(currentTaskEffect(ts, currentTask), currentTask)

\* The timer's variables after the handler left the timer as ts and the
\* focused task as currentTask.
TimerBecomes(ts, currentTask) ==
  LET s == settle(ts, currentTask)
  IN /\ remaining' = s.remaining
     /\ status' = s.status
     /\ intervalId' = s.intervalId
     /\ intervals' = s.intervals
     /\ completions' = s.completions

\* -------------------------------------------------------------- Init
Init ==
  /\ store \in [TaskIds -> Statuses \cup {Absent}]
  /\ tasks = [t \in TaskIds |-> Absent]
  /\ currentFocusTask = NoTask
  /\ inflight = {}
  /\ isSubmitting = FALSE
  /\ remaining = POMODORO_TIME
  /\ status = "idle"
  /\ intervalId = 0
  /\ intervals = {}
  /\ completions = <<>>
  /\ lastEvent = Event("init")

\* ------------------------------------------------- the timer's buttons
\* Start button: shown when idle, disabled without a task.
ClickStart ==
  /\ status = "idle"
  /\ currentFocusTask # NoTask
  /\ TimerBecomes(startTimer(timerState, "running", focusTime(currentFocusTask),
                             currentFocusTask),
                  currentFocusTask)
  /\ lastEvent' = Event("start")
  /\ UNCHANGED <<tasks, store, currentFocusTask, inflight, isSubmitting>>

\* Stop button: shown when running or break.
ClickStop ==
  /\ status \in {"running", "break"}
  /\ TimerBecomes(stopTimer(timerState), currentFocusTask)
  /\ lastEvent' = Event("stop")
  /\ UNCHANGED <<tasks, store, currentFocusTask, inflight, isSubmitting>>

\* Take a Break button: shown when running.
ClickTakeBreak ==
  /\ status = "running"
  /\ TimerBecomes(startTimer(timerState, "break", BREAK_TIME \div 60, currentFocusTask),
                  currentFocusTask)
  /\ lastEvent' = Event("takeBreak")
  /\ UNCHANGED <<tasks, store, currentFocusTask, inflight, isSubmitting>>

\* One second passes for an active interval.
Tick ==
  \E iv \in intervals :
    /\ TimerBecomes(intervalCallback(timerState, iv), currentFocusTask)
    /\ lastEvent' = Event("tick")
    /\ UNCHANGED <<tasks, store, currentFocusTask, inflight, isSubmitting>>

\* ------------------------------------------------------- the controller
\* A request to the store: what was asked, and the currentFocusTask the
\* handler's closure holds while it awaits.
Request(kind, taskId, newStatus) ==
  [kind |-> kind, taskId |-> taskId, newStatus |-> newStatus,
   focusAtCall |-> currentFocusTask, phase |-> "sent"]

\* handleUpdateTaskStatus up to its await: the card's status button.
ClickAdvance ==
  \E t \in TaskIds :
    /\ tasks[t] # Absent
    /\ Cardinality(inflight) < MaxInFlight
    /\ inflight' = inflight \cup {Request("update", t, nextStatus(tasks[t]))}
    /\ lastEvent' = Event("other")
    /\ UNCHANGED <<tasks, store, currentFocusTask, isSubmitting, remaining, status,
                   intervalId, intervals, completions>>

\* handleDeleteTask up to its await: the card's delete button.
ClickDelete ==
  \E t \in TaskIds :
    /\ tasks[t] # Absent
    /\ Cardinality(inflight) < MaxInFlight
    /\ inflight' = inflight \cup {Request("delete", t, Absent)}
    /\ lastEvent' = Event("other")
    /\ UNCHANGED <<tasks, store, currentFocusTask, isSubmitting, remaining, status,
                   intervalId, intervals, completions>>

\* handleStartFocus that asks for in-progress whatever the task's status.
handleStartFocus_alwaysAdvances ==
  \E t \in TaskIds :
    /\ tasks[t] \notin {Absent, "complete"}
    /\ Cardinality(inflight) < MaxInFlight
    /\ currentFocusTask' = t
    /\ inflight' = inflight \cup {Request("update", t, "in-progress")}
    /\ TimerBecomes(timerState, t)
    /\ lastEvent' = [name |-> "focus", task |-> t, was |-> tasks[t]]
    /\ UNCHANGED <<tasks, store, isSubmitting>>

\* handleStartFocus: the card's Focus button, shown unless complete.
handleStartFocus ==
  \E t \in TaskIds :
    /\ tasks[t] \notin {Absent, "complete"}
    /\ tasks[t] = "todo" => Cardinality(inflight) < MaxInFlight
    /\ currentFocusTask' = t
    /\ inflight' = IF tasks[t] = "todo"
                   THEN inflight \cup {Request("update", t, "in-progress")}
                   ELSE inflight
    /\ TimerBecomes(timerState, t)
    /\ lastEvent' = [name |-> "focus", task |-> t, was |-> tasks[t]]
    /\ UNCHANGED <<tasks, store, isSubmitting>>

\* The ids addDoc can give a new document: ids of no document the UI knows.
freshIds ==
  {t \in TaskIds :
     /\ store[t] = Absent
     /\ tasks[t] = Absent
     /\ t # currentFocusTask
     /\ \A r \in inflight : r.taskId # t
     /\ \A iv \in intervals : iv.task # t}

\* handleSubmit that tests the title as typed, without trim().
handleSubmit_noTrim ==
  \E title \in Titles :
    /\ ~isSubmitting
    /\ IF title = <<>>
       THEN UNCHANGED <<inflight, isSubmitting>>
       ELSE /\ Cardinality(inflight) < MaxInFlight
            /\ \E id \in freshIds :
                 inflight' = inflight \cup {Request("add", id, "todo")}
            /\ isSubmitting' = TRUE
    /\ lastEvent' = [name |-> "submit", title |-> title]
    /\ UNCHANGED <<tasks, store, currentFocusTask, remaining, status,
                   intervalId, intervals, completions>>

\* TaskForm.handleSubmit, and App.handleAddTask up to its await: a submit
\* event of the form (its button is disabled while isSubmitting).  A title
\* that trims to nothing returns at once; otherwise the flag is set and addDoc
\* is called with status todo.
handleSubmit ==
  \E title \in Titles :
    /\ ~isSubmitting
    /\ IF trim(title) = <<>>
       THEN UNCHANGED <<inflight, isSubmitting>>
       ELSE /\ Cardinality(inflight) < MaxInFlight
            /\ \E id \in freshIds :
                 inflight' = inflight \cup {Request("add", id, "todo")}
            /\ isSubmitting' = TRUE
    /\ lastEvent' = [name |-> "submit", title |-> title]
    /\ UNCHANGED <<tasks, store, currentFocusTask, remaining, status,
                   intervalId, intervals, completions>>

\* The store applies a request and pushes the change notification: onSnapshot
\* replaces the list by the collection's current documents.  The notification
\* of a write reaches the listener before the write's promise resolves.
\* updateDoc of a document that is gone is not applied.
StoreApplies ==
  \E r \in inflight :
    /\ r.phase = "sent"
    /\ r.kind = "update" => store[r.taskId] # Absent
    /\ store' = [store EXCEPT ![r.taskId] = r.newStatus]
    /\ tasks' = store'
    /\ inflight' = (inflight \ {r}) \cup {[r EXCEPT !.phase = "applied"]}
    /\ lastEvent' = Event("other")
    /\ UNCHANGED <<currentFocusTask, isSubmitting, remaining, status,
                   intervalId, intervals, completions>>

\* The test after the await without the case of a completed task.
clearsFocus_onlyDelete(r) ==
  /\ r.focusAtCall = r.taskId
  /\ r.kind = "delete"

\* Whether the code after the await clears the focus: the test
\* currentFocusTask?.id === taskId, on the closure's currentFocusTask
\* (handleAddTask has no such test).
clearsFocus(r) ==
  /\ r.kind # "add"
  /\ r.focusAtCall = r.taskId
  /\ r.kind = "update" => r.newStatus = "complete"

\* The await of handleAddTask / handleUpdateTaskStatus / handleDeleteTask
\* returns: the rest of the try block runs, and handleAddTask's finally.
PromiseResolves ==
  \E r \in inflight :
    LET focus == IF clearsFocus(r) THEN NoTask ELSE currentFocusTask
    IN /\ r.phase = "applied"
       /\ inflight' = inflight \ {r}
       /\ currentFocusTask' = focus
       /\ isSubmitting' = IF r.kind = "add" THEN FALSE ELSE isSubmitting
       /\ TimerBecomes(timerState, focus)
       /\ lastEvent' = [name |-> "resolved", request |-> r.newStatus,
                         cleared |-> clearsFocus(r), timer |-> status]
       /\ UNCHANGED <<tasks, store>>

\* A catch block that also runs the code that follows the await.
PromiseRejects_clearsFocus ==
  \E r \in inflight :
    LET focus == IF clearsFocus(r) THEN NoTask ELSE currentFocusTask
    IN /\ r.phase = "sent"
       /\ inflight' = inflight \ {r}
       /\ currentFocusTask' = focus
       /\ isSubmitting' = IF r.kind = "add" THEN FALSE ELSE isSubmitting
       /\ TimerBecomes(timerState, focus)
       /\ lastEvent' = [name |-> "rejected", kind |-> r.kind, request |-> r.newStatus,
                         focused |-> (r.focusAtCall = r.taskId)]
       /\ UNCHANGED <<tasks, store>>

\* The await throws (the store refused the request): the catch block logs,
\* and handleAddTask's finally clears the flag.
PromiseRejects ==
  \E r \in inflight :
    /\ r.phase = "sent"
    /\ inflight' = inflight \ {r}
    /\ isSubmitting' = IF r.kind = "add" THEN FALSE ELSE isSubmitting
    /\ lastEvent' = [name |-> "rejected", kind |-> r.kind, request |-> r.newStatus,
                      focused |-> (r.focusAtCall = r.taskId)]
    /\ UNCHANGED <<tasks, store, currentFocusTask, remaining, status,
                   intervalId, intervals, completions>>

\* onSnapshot's first notification: the list is loaded from the collection.
Snapshot ==
  /\ tasks # store
  /\ tasks' = store
  /\ lastEvent' = Event("other")
  /\ UNCHANGED <<store, currentFocusTask, inflight, isSubmitting, remaining, status,
                 intervalId, intervals, completions>>

Next ==
  \/ ClickStart
  \/ ClickStop
  \/ ClickTakeBreak
  \/ Tick
  \/ ClickAdvance
  \/ ClickDelete
  \/ handleStartFocus
  \/ handleSubmit
  \/ StoreApplies
  \/ PromiseResolves
  \/ PromiseRejects
  \/ Snapshot

Spec == Init /\ [][Next]_vars

\* The interval fires every second for as long as it is active.
FairSpec == Spec /\ WF_vars(Tick)

TypeOK ==
  /\ tasks \in [TaskIds -> Statuses \cup {Absent}]
  /\ store \in [TaskIds -> Statuses \cup {Absent}]
  /\ currentFocusTask \in TaskIds \cup {NoTask}
  /\ Cardinality(inflight) <= MaxInFlight
  /\ isSubmitting \in BOOLEAN
  /\ remaining \in 0..(POMODORO_TIME + MaxFocusMinutes * 60)
  /\ status \in {"idle", "running", "break"}
  /\ intervalId \in Nat
  /\ Len(completions) <= 2

\* ================================================================ claims

\* C1: the tick that exhausts the remaining time of a running countdown calls
\* the completion callback once, with the task the countdown was started for
\* (the task focused when Start was clicked), and leaves the timer in break
\* with 300 seconds and no active interval; a session never has a second
\* completion callback.
C1_CompletionOnce ==
  /\ [](Len(completions) <= 1)
  /\ [][/\ lastEvent'.name = "start" =>
             \A iv \in intervals' : iv.task = currentFocusTask
        /\ (lastEvent'.name = "tick" /\ status = "running" /\ remaining <= 1) =>
             /\ status' = "break"
             /\ remaining' = BREAK_TIME
             /\ intervals' = {}
             /\ \E iv \in intervals : completions' = <<iv.task>>]_vars

C1_Witness ==
  /\ lastEvent.name = "tick"
  /\ status = "break"
  /\ remaining = BREAK_TIME
  /\ completions = <<currentFocusTask>>

\* C2 (as claimed): exactly one interval is active when the status is running
\* or break, none when it is idle.
C2_OneTickWhileActive ==
  /\ status \in {"running", "break"} => Cardinality(intervals) = 1
  /\ status = "idle" => intervals = {}

\* C3 (as claimed): under fair ticking a break ends in idle by itself.  A
\* behaviour that stays in break for ever has no stop and no clearing of the
\* focus in it, as either leaves the timer idle.
C3_BreakEnds == (status = "break") ~> (status = "idle")

\* C4 (as claimed): Take a Break, from running, leaves the timer in break with
\* 300 seconds and calls no completion callback.
C4_TakeBreak ==
  lastEvent.name = "takeBreak" =>
    /\ status = "break"
    /\ remaining = BREAK_TIME
    /\ completions = <<>>

\* C5 (as claimed): after an explicit stop the timer is idle with the default
\* 1500 seconds.
C5_StopResetsToDefault ==
  lastEvent.name = "stop" => status = "idle" /\ remaining = POMODORO_TIME

\* C5 (amended): after an explicit stop the timer is idle, a task is still
\* focused and the remaining time is that task's focus time in seconds; while
\* idle the remaining time is a function of the focused task (the default 1500
\* seconds with no task), so it stays until the next start or focus change.
C5_StopResetsToTaskTime ==
  /\ lastEvent.name = "stop" =>
       /\ status = "idle"
       /\ currentFocusTask # NoTask
       /\ remaining = focusTime(currentFocusTask) * 60
  /\ status = "idle" =>
       remaining = IF currentFocusTask = NoTask THEN POMODORO_TIME
                   ELSE focusTime(currentFocusTask) * 60

C5_Witness ==
  /\ lastEvent.name = "stop"
  /\ status = "idle"
  /\ currentFocusTask # NoTask
  /\ remaining # POMODORO_TIME

\* C6 (as claimed): the focused task, if any, is not complete in the list.
\* (At most one task is focused by construction: currentFocusTask is one value.)
C6_FocusNotComplete ==
  currentFocusTask # NoTask => tasks[currentFocusTask] # "complete"

C8_CountsDown ==
  /\ [](status = "running" =>
          \A iv \in intervals : remaining \in 1..(focusTime(iv.task) * 60))
  /\ [][/\ lastEvent'.name = "start" =>
             /\ status = "idle"
             /\ status' = "running"
             /\ remaining' = focusTime(currentFocusTask) * 60
        /\ (lastEvent'.name = "tick" /\ status = "running" /\ remaining > 1) =>
             /\ status' = "running"
             /\ remaining' = remaining - 1]_vars

C8_Witness ==
  /\ lastEvent.name = "tick"
  /\ status = "running"
  /\ currentFocusTask # NoTask
  /\ remaining = focusTime(currentFocusTask) * 60 - 2

\* C9: a stop leaves no interval behind, and with the timer idle nothing but
\* a new start makes it leave idle, calls the completion callback or ticks.
C9_StopCancelsTick ==
  /\ [](lastEvent.name = "stop" => status = "idle")
  /\ [](status = "idle" => intervals = {} /\ intervalId = 0)
  /\ [][(status = "idle" /\ lastEvent'.name # "start") =>
          /\ status' = "idle"
          /\ completions' = completions
          /\ lastEvent'.name # "tick"]_vars

C9_Witness ==
  /\ lastEvent.name = "stop"
  /\ status = "idle"
  /\ intervals = {}

\* C10: with no focused task the timer is idle at the default time with no
\* active interval, so clearing the focus while running or break stops it.
C10_ClearingFocusStops ==
  currentFocusTask = NoTask =>
    /\ status = "idle"
    /\ intervals = {}
    /\ intervalId = 0
    /\ remaining = POMODORO_TIME

C10_Witness ==
  /\ lastEvent.name = "resolved"
  /\ lastEvent.cleared
  /\ lastEvent.timer = "running"
  /\ currentFocusTask = NoTask
  /\ status = "idle"

\* C11: a rejected store request changes neither the list, the collection,
\* the focus nor the timer, and issues no request; a rejected add clears the
\* submitting flag, which is set exactly while an add is pending.
C11_FailureLeavesState ==
  /\ [](isSubmitting <=> \E r \in inflight : r.kind = "add")
  /\ [][lastEvent'.name = "rejected" =>
          /\ UNCHANGED <<tasks, store, currentFocusTask, remaining, status,
                         intervalId, intervals, completions>>
          /\ inflight' \subseteq inflight
          /\ inflight' # inflight
          /\ lastEvent'.kind = "add" => ~isSubmitting'
          /\ lastEvent'.kind # "add" => isSubmitting' = isSubmitting]_vars

C11_Witness ==
  /\ lastEvent.name = "rejected"
  /\ lastEvent.request \in {"complete", Absent}
  /\ lastEvent.focused
  /\ currentFocusTask # NoTask
  /\ ~isSubmitting

\* C12: the Focus button of a task makes it the focused task; for a task that
\* is todo in the list it also requests the update of that task to
\* in-progress, for a task that is in-progress it requests nothing.
C12_FocusAdvancesTodo ==
  [][lastEvent'.name = "focus" =>
       LET t == lastEvent'.task
           r == [kind |-> "update", taskId |-> t, newStatus |-> "in-progress",
                 focusAtCall |-> currentFocusTask, phase |-> "sent"]
       IN /\ currentFocusTask' = t
          /\ tasks[t] = lastEvent'.was
          /\ tasks[t] = "todo" => inflight' = inflight \cup {r}
          /\ tasks[t] = "in-progress" => inflight' = inflight
          /\ UNCHANGED <<tasks, store>>]_vars

C12_Witness ==
  /\ lastEvent.name = "focus"
  /\ lastEvent.was = "todo"
  /\ currentFocusTask = lastEvent.task
  /\ \E r \in inflight :
       /\ r.kind = "update"
       /\ r.taskId = currentFocusTask
       /\ r.newStatus = "in-progress"

\* C13: a submit with a title of blanks only (or no character) calls no
\* addDoc, does not set the submitting flag and leaves the list as it is.
C13_BlankTitleNoOp ==
  [][(/\ lastEvent'.name = "submit"
      /\ \A i \in 1..Len(lastEvent'.title) : lastEvent'.title[i] = " ") =>
       UNCHANGED <<inflight, isSubmitting, tasks, store>>]_vars

C13_Witness ==
  /\ lastEvent.name = "submit"
  /\ Len(lastEvent.title) > 0
  /\ \A i \in 1..Len(lastEvent.title) : lastEvent.title[i] = " "
  /\ ~isSubmitting
  /\ inflight = {}

\* C14 (as claimed): when the update or delete of a task resolves while
\* another task is the focused one, that other task stays focused.
C14_FocusOfOtherTaskKept ==
  [][\A r \in inflight :
       (/\ r \notin inflight'
        /\ r.phase = "applied"
        /\ r.kind \in {"update", "delete"}
        /\ currentFocusTask # NoTask
        /\ currentFocusTask # r.taskId) =>
         currentFocusTask' = currentFocusTask]_vars

\* C15: the Focus button pressed while the countdown runs leaves the timer as
\* it is (status, remaining time, interval), the interval holds the task that
\* was focused at the start, and the exhausting tick reports that task,
\* whichever task is focused then.
C15_SwitchKeepsCountdown ==
  [][/\ (lastEvent'.name = "focus" /\ status = "running") =>
          UNCHANGED <<status, remaining, intervalId, intervals, completions>>
     /\ lastEvent'.name = "start" =>
          \A iv \in intervals' : iv.task = currentFocusTask
     /\ (lastEvent'.name = "tick" /\ status = "running") =>
          /\ intervals' \subseteq intervals
          /\ remaining > 1 => remaining' = remaining - 1
          /\ remaining <= 1 => \E iv \in intervals : completions' = <<iv.task>>]_vars

C15_Witness ==
  /\ lastEvent.name = "tick"
  /\ status = "break"
  /\ Len(completions) = 1
  /\ currentFocusTask # NoTask
  /\ completions[1] # currentFocusTask
====
